---- MODULE Spec2Model ----
(***************************************************************************)
(* Model of the ego-graph view of showgraph (src/app/app_v2.py):           *)
(* create_ego_graph_view extracts the bounded neighbourhood of a focus     *)
(* node, optionally hides source nodes, optionally collapses linear chains *)
(* and finally colours the nodes and hands nodes and edges to the pyvis    *)
(* network.                                                                *)
(*                                                                         *)
(* A graph is a record [nodes, edges]; an edge is <<source, target, w>>    *)
(* where w is the edge's weight attribute or NoWeight when the edge has no *)
(* attributes.  As in a networkx DiGraph there is at most one edge per     *)
(* ordered pair of nodes.                                                  *)
(***************************************************************************)
EXTENDS Integers, FiniteSets, Sequences, TLC

VARIABLES
    full_graph,          \* st.session_state.graph, read only
    pc,                  \* position inside create_ego_graph_view
    center_node,         \* arguments of the current call
    out_radius_hops,
    in_radius_hops,
    hide_source_nodes,
    simplify_chains,
    layout,
    out_nodes,           \* set(out_ego_g.nodes())
    in_nodes,            \* set(in_ego_g.nodes())
    combined_g,          \* the graph being transformed
    scan,                \* nodes of list(combined_g.nodes()) not yet visited
    simplified_in_pass,
    community_map,
    net,                 \* the returned pyvis Network: node colours and edges
    outcome,             \* "none" while running, then how the call ended
    extracted,           \* history: combined_g right after line 184
    pre_simplify,        \* history: combined_g right before line 190
    prev_view,           \* history: node set of the render before a toggle
    app_pc,              \* app.py: position of the page script
    widgets,             \* app.py: sidebar widget values
    session,             \* app.py: st.session_state besides the graph
    cache,               \* app.py: the three st.cache_data stores
    app_net              \* app.py: what create_interactive_graph returned

vars == <<full_graph, pc, center_node, out_radius_hops, in_radius_hops,
          hide_source_nodes, simplify_chains, layout, out_nodes, in_nodes,
          combined_g, scan, simplified_in_pass, community_map, net, outcome,
          extracted, pre_simplify, prev_view,
          app_pc, widgets, session, cache, app_net>>

AppVars == <<app_pc, widgets, session, cache, app_net>>

ViewVars == <<pc, center_node, out_radius_hops, in_radius_hops,
              hide_source_nodes, simplify_chains, layout, out_nodes, in_nodes,
              combined_g, scan, simplified_in_pass, community_map, net, outcome,
              extracted, pre_simplify, prev_view>>

----------------------------------------------------------------------------
(* Bounds and input sets *)

MaxRadius == 2

NodeSeq == <<"A", "B", "C", "D", "E">>
Nodes == {NodeSeq[i] : i \in 1..Len(NodeSeq)}

\* focus values that are not usable: the empty selection and an unknown name
EmptyNode == ""
UnknownNode == "Z"
Centers == Nodes \cup {EmptyNode, UnknownNode}

Radii == (-1)..MaxRadius

\* candidate edges of the loaded graphs: the chain A->B->C->D->E of the
\* scenarios plus chords that give shortcuts, an existing bypass edge and a
\* two-cycle
EdgePool == { <<"A", "B">>, <<"B", "C">>, <<"C", "D">>, <<"D", "E">>,
              <<"C", "E">>, <<"E", "D">>, <<"A", "C">> }

\* candidate edges of the loaded graphs that have self-loops: on the node B
\* without other incoming edge, on C and on D in the middle of the chain
LoopPool == { <<"B", "B">>, <<"C", "C">>, <<"D", "D">>,
             <<"B", "C">>, <<"C", "D">>, <<"D", "E">> }

NoWeight == "none"
EmptyGraph == [nodes |-> {}, edges |-> {}]
EmptyMap == [n \in {} |-> 0]
EmptyNet == [nodes |-> EmptyMap, edges |-> {}]
\* no render precedes the current one
NoPrev == [valid |-> FALSE, nodes |-> {}, hide |-> FALSE]

----------------------------------------------------------------------------
(* The loaded graph *)

Idx(n) == CHOOSE i \in 1..Len(NodeSeq) : NodeSeq[i] = n

\* the weight attribute of a link of the loaded file; distinct per link
WeightOf(u, v) == 10 * Idx(u) + Idx(v)

\* node_link_graph: every node of the file, every link with its weight
load_graph(links) ==
    [nodes |-> Nodes, edges |-> {<<l[1], l[2], WeightOf(l[1], l[2])>> : l \in links}]

----------------------------------------------------------------------------
(* networkx operations used by the view *)

EdgePairs(g) == {<<e[1], e[2]>> : e \in g.edges}
Successors(g, n) == {e[2] : e \in {x \in g.edges : x[1] = n}}
Predecessors(g, n) == {e[1] : e \in {x \in g.edges : x[2] = n}}
OutDegree(g, n) == Cardinality({e \in g.edges : e[1] = n})
InDegree(g, n) == Cardinality({e \in g.edges : e[2] = n})

Reverse(g) == [nodes |-> g.nodes, edges |-> {<<e[2], e[1], e[3]>> : e \in g.edges}]

Subgraph(g, S) ==
    [nodes |-> g.nodes \cap S,
     edges |-> {e \in g.edges : e[1] \in S /\ e[2] \in S}]

\* breadth-first levels from the set seen, following edge direction, at most
\* cutoff further levels
RECURSIVE ShortestPathLength(_, _, _)
ShortestPathLength(g, seen, cutoff) ==
    IF cutoff <= 0 THEN seen
    ELSE LET next == seen \cup UNION {Successors(g, n) : n \in seen}
         IN  IF next = seen THEN seen ELSE ShortestPathLength(g, next, cutoff - 1)

\* nx.ego_graph(g, n, radius, undirected=False): the subgraph induced by the
\* nodes within radius hops of n, n included
EgoGraph(g, n, radius) == Subgraph(g, ShortestPathLength(g, {n}, radius))

\* a union that loses the edges of its first operand
ComposeDroppingEdges(G, H) == [nodes |-> G.nodes \cup H.nodes, edges |-> H.edges]

\* nx.compose(G, H): union of nodes and edges, H's attributes take precedence
Compose(G, H) ==
    [nodes |-> G.nodes \cup H.nodes,
     edges |-> H.edges \cup {e \in G.edges : <<e[1], e[2]>> \notin EdgePairs(H)}]

AddNode(g, n) == [g EXCEPT !.nodes = @ \cup {n}]

RemoveNodesFrom(g, S) ==
    [nodes |-> g.nodes \ S,
     edges |-> {e \in g.edges : e[1] \notin S /\ e[2] \notin S}]

\* g.add_edge(u, v) without attributes: a new edge carries no weight, an
\* existing edge keeps its attributes
AddEdge(g, u, v) ==
    IF <<u, v>> \in EdgePairs(g) THEN g
    ELSE [nodes |-> g.nodes \cup {u, v}, edges |-> g.edges \cup {<<u, v, NoWeight>>}]

RemoveNode(g, n) == RemoveNodesFrom(g, {n})

----------------------------------------------------------------------------
(* create_ego_graph_view, lines 167-188: guard, extraction, hide_sources *)

\* a guard that only tests for the empty selection
CenterEmptyOnly(g, center) == center = EmptyNode

\* line 168: not center_node or center_node not in full_graph
CenterMissing(g, center) == center = EmptyNode \/ center \notin g.nodes

\* a forward exploration one hop too deep
OutEgoTooDeep(g, center, radius) ==
    IF radius > 0 THEN EgoGraph(g, center, radius + 1) ELSE EmptyGraph

\* lines 174-176: the forward ego graph, explored only for a positive radius
OutEgo(g, center, radius) ==
    IF radius > 0 THEN EgoGraph(g, center, radius) ELSE EmptyGraph

\* lines 178-180: the ego graph of the reversed graph
InEgo(g, center, radius) ==
    IF radius > 0 THEN EgoGraph(Reverse(g), center, radius) ELSE EmptyGraph

\* a fallback that takes the focus with its own edges from the full graph
CombinedWithFocusEdges(out_ego_g, in_ego_g, center) ==
    LET c == Compose(out_ego_g, Reverse(in_ego_g))
    IN  IF c.nodes = {} THEN Subgraph(full_graph, {center}) ELSE c

\* lines 182-184
Combined(out_ego_g, in_ego_g, center) ==
    LET c == Compose(out_ego_g, Reverse(in_ego_g))
    IN  IF c.nodes = {} THEN AddNode(c, center) ELSE c

\* a hiding that also takes the nodes with a single incoming edge
HideSourcesTooMany(g, full, center, hide) ==
    IF hide
    THEN RemoveNodesFrom(g, {n \in g.nodes : InDegree(full, n) <= 1 /\ n # center})
    ELSE g

\* lines 186-188
HideSources(g, full, center, hide) ==
    IF hide
    THEN LET nodes_to_remove ==
                 {n \in g.nodes : InDegree(full, n) = 0 /\ n # center}
         IN  RemoveNodesFrom(g, nodes_to_remove)
    ELSE g

\* One call of create_ego_graph_view up to line 190, prev being the history
\* kept of the render before it
Call(center, out_r, in_r, hide, simp, prev) ==
    /\ center_node' = center
    /\ out_radius_hops' = out_r
    /\ in_radius_hops' = in_r
    /\ hide_source_nodes' = hide
    /\ simplify_chains' = simp
    /\ prev_view' = prev
    /\ layout' = ""
    /\ community_map' = EmptyMap
    /\ simplified_in_pass' = FALSE
    /\ UNCHANGED <<full_graph, AppVars>>
    /\ IF CenterMissing(full_graph, center)
       THEN /\ pc' = "done"
            /\ outcome' = "view"
            /\ net' = EmptyNet
            /\ out_nodes' = {}
            /\ in_nodes' = {}
            /\ combined_g' = EmptyGraph
            /\ extracted' = EmptyGraph
            /\ pre_simplify' = EmptyGraph
            /\ scan' = {}
       ELSE LET out_ego_g == OutEgo(full_graph, center, out_r)
                in_ego_g == InEgo(full_graph, center, in_r)
                c == Combined(out_ego_g, in_ego_g, center)
                h == HideSources(c, full_graph, center, hide)
            IN  /\ out_nodes' = out_ego_g.nodes
                /\ in_nodes' = in_ego_g.nodes
                /\ extracted' = c
                /\ pre_simplify' = h
                /\ combined_g' = h
                /\ scan' = IF simp THEN h.nodes ELSE {}
                /\ pc' = IF simp THEN "scan" ELSE "annotate"
                /\ outcome' = "none"
                /\ net' = EmptyNet

\* line 321: the page calls create_ego_graph_view with the widget values
CreateEgoGraphView(center, out_r, in_r, hide, simp) ==
    /\ pc = "idle"
    /\ Call(center, out_r, in_r, hide, simp, NoPrev)

----------------------------------------------------------------------------
(* lines 190-214: chain simplification *)

\* a test that takes no node for a pass-through node
IsCandidateNever(g, n, center) == FALSE

\* a test that lets a node with several successors through
IsCandidateAnyFanOut(g, n, center) ==
    /\ n # center
    /\ InDegree(g, n) = 1
    /\ OutDegree(g, n) >= 1

\* lines 197-201
IsCandidate(g, n, center) ==
    /\ n # center
    /\ InDegree(g, n) = 1
    /\ OutDegree(g, n) = 1

Pred(g, n) == CHOOSE p \in Predecessors(g, n) : TRUE
Succ(g, n) == CHOOSE s \in Successors(g, n) : TRUE

\* a guard that lets every candidate through
CollapseAlways(pred, succ) == TRUE

\* line 208
CreatesNoSelfLoop(pred, succ) == pred # succ

\* a collapse that joins predecessor and successor but leaves the node
CollapseKeepingNode(g, n) == AddEdge(g, Pred(g, n), Succ(g, n))

\* a collapse that forgets to join predecessor and successor
CollapseWithoutBypass(g, n) == RemoveNode(g, n)

\* lines 209-210
Collapse(g, n) == RemoveNode(AddEdge(g, Pred(g, n), Succ(g, n)), n)

\* The nodes the for loop of line 194 may visit next.  list(combined_g.nodes())
\* keeps the nodes of out_ego_g before the nodes only in_ego_g has (compose);
\* inside each group the order is the iteration order of the loaded file and
\* of networkx's node filter, which the view does not fix.
NextToVisit ==
    IF scan \cap out_nodes # {} THEN scan \cap out_nodes ELSE scan

SimplifyVars == <<full_graph, center_node, out_radius_hops, in_radius_hops,
                  hide_source_nodes, simplify_chains, layout, out_nodes, in_nodes,
                  community_map, net, outcome, extracted, pre_simplify, prev_view,
                  AppVars>>

\* lines 203-211, a candidate that is collapsed
CollapseNode(n) ==
    /\ pc = "scan"
    /\ n \in NextToVisit
    /\ IsCandidate(combined_g, n, center_node)
    /\ CreatesNoSelfLoop(Pred(combined_g, n), Succ(combined_g, n))
    /\ combined_g' = Collapse(combined_g, n)
    /\ simplified_in_pass' = TRUE
    /\ scan' = scan \ {n}
    /\ UNCHANGED <<pc, SimplifyVars>>

\* lines 194-208, a node that is left in place
SkipNode(n) ==
    /\ pc = "scan"
    /\ n \in NextToVisit
    /\ \/ ~IsCandidate(combined_g, n, center_node)
       \/ /\ IsCandidate(combined_g, n, center_node)
          /\ ~CreatesNoSelfLoop(Pred(combined_g, n), Succ(combined_g, n))
    /\ scan' = scan \ {n}
    /\ UNCHANGED <<pc, combined_g, simplified_in_pass, SimplifyVars>>

\* lines 213-214 and 191-192: the end of a pass over the nodes
EndPass ==
    /\ pc = "scan"
    /\ scan = {}
    /\ IF simplified_in_pass
       THEN /\ scan' = combined_g.nodes
            /\ simplified_in_pass' = FALSE
            /\ pc' = "scan"
       ELSE /\ pc' = "annotate"
            /\ UNCHANGED <<scan, simplified_in_pass>>
    /\ UNCHANGED <<combined_g, SimplifyVars>>

----------------------------------------------------------------------------
(* lines 216-308: colours and the returned network *)

DefaultLayout == "Default Physics (ForceAtlas2)"
CommunityLayout == "Community Detection (Greedy Modularity)"
Layouts == {DefaultLayout, CommunityLayout, "Kamada-Kawai"}

FocusColor == "#ff4d4d"
BothColor == "#9933ff"
BackwardColor == "#33cc33"
ForwardColor == "#ffaa00"
DefaultColor == "#66a3ff"

CommunityIds == {0, 1}

\* lines 230-237: what greedy_modularity_communities can leave in
\* community_map: nothing when it raises, else a partition of the nodes into
\* communities numbered from 0, largest first
CommunityOutcomes(S) ==
    {EmptyMap} \cup
    {m \in [S -> CommunityIds] :
        LET ids == {m[n] : n \in S}
            size(i) == Cardinality({n \in S : m[n] = i})
        IN  /\ \A i \in ids : \A j \in CommunityIds : j < i => j \in ids
            /\ \A i \in ids : \A j \in ids : j < i => size(j) >= size(i)}

\* line 255: palette[i]
Palette(i, num_communities) == <<"hsl", (i * 360) \div num_communities>>

\* lines 251-257
CommunityColors(cmap) ==
    LET num_communities == Cardinality({cmap[n] : n \in DOMAIN cmap})
    IN  [n \in DOMAIN cmap |-> Palette(cmap[n], num_communities)]

\* line 268
RoleColor(node, center, ins, outs) ==
    IF node = center THEN FocusColor
    ELSE IF node \in ins /\ node \in outs THEN BothColor
    ELSE IF node \in ins THEN BackwardColor
    ELSE IF node \in outs THEN ForwardColor
    ELSE DefaultColor

\* a colouring that forgets to keep the focus distinct in community mode
NodeColorWithoutFocus(node, center, cmap, ins, outs) ==
    IF cmap # EmptyMap /\ node \in DOMAIN CommunityColors(cmap)
    THEN CommunityColors(cmap)[node]
    ELSE RoleColor(node, center, ins, outs)

\* lines 260-268
NodeColor(node, center, cmap, ins, outs) ==
    IF cmap # EmptyMap /\ node \in DOMAIN CommunityColors(cmap)
    THEN IF node = center THEN FocusColor ELSE CommunityColors(cmap)[node]
    ELSE RoleColor(node, center, ins, outs)

\* line 307: net.add_edges(combined_g.edges()) receives (source, target)
\* pairs, the attributes of the edges are not passed on
NetEdges(g) == {[from |-> e[1], to |-> e[2]] : e \in g.edges}

\* lines 216-308
Annotate(lay, cmap) ==
    /\ pc = "annotate"
    /\ lay \in Layouts
    /\ IF lay = CommunityLayout /\ Cardinality(combined_g.nodes) > 1
       THEN cmap \in CommunityOutcomes(combined_g.nodes)
       ELSE cmap = EmptyMap
    /\ layout' = lay
    /\ community_map' = cmap
    /\ net' = [nodes |-> [n \in combined_g.nodes |->
                            NodeColor(n, center_node, cmap, in_nodes, out_nodes)],
               edges |-> NetEdges(combined_g)]
    /\ outcome' = "view"
    /\ pc' = "done"
    /\ UNCHANGED <<full_graph, center_node, out_radius_hops, in_radius_hops,
                   hide_source_nodes, simplify_chains, out_nodes, in_nodes,
                   combined_g, scan, simplified_in_pass, extracted,
                   pre_simplify, prev_view, AppVars>>

\* lines 121-125 and 321: switching the "Hide source nodes" toggle reruns
\* the page with the same graph, focus and other widget values
ToggleHideSources ==
    /\ pc = "done"
    /\ ~prev_view.valid
    /\ Call(center_node, out_radius_hops, in_radius_hops, ~hide_source_nodes,
            simplify_chains,
            [valid |-> TRUE, nodes |-> DOMAIN net.nodes, hide |-> hide_source_nodes])

----------------------------------------------------------------------------
(* app.py: the page that renders the whole graph, lines 65-211 *)

\* the graph files of the data directory and their links
DataFiles == {"chain.json", "fork.json"}
FileLinks(f) ==
    IF f = "chain.json"
    THEN {<<"A", "B">>, <<"B", "C">>, <<"C", "D">>, <<"D", "E">>}
    ELSE {<<"A", "B">>, <<"A", "C">>, <<"C", "A">>}

\* lines 65-70: node_link_graph of the file; the nodes are those of the links
LoadGraphFile(f) ==
    [nodes |-> {l[1] : l \in FileLinks(f)} \cup {l[2] : l \in FileLinks(f)},
     edges |-> {<<l[1], l[2], WeightOf(l[1], l[2])>> : l \in FileLinks(f)}]

\* line 130
AppLayouts == {DefaultLayout, CommunityLayout, "Hierarchical", "Kamada-Kawai",
               "Fruchterman-Reingold"}

None == "None"

\* the nodes picked in the node selectbox
SelectableNodes == {"A", "C"}

\* the group of a node that has none
NoGroup == -1

\* An st.cache_data store of a function whose only parameter, _graph, is
\* left out of the key: at most one entry, returned to every caller.  The
\* field of remembers the graph the value was computed from.
NoEntry == [present |-> FALSE, of |-> EmptyGraph, value |-> EmptyMap]
EmptyCache == [communities |-> NoEntry, kamada_kawai |-> NoEntry, spring |-> NoEntry]

\* a call of a cached function: the stored entry when there is one, else the
\* value computed from g, which is stored
CachedCall(entry, g, computed) ==
    IF entry.present THEN entry ELSE [present |-> TRUE, of |-> g, value |-> computed]

\* a clearing that leaves the community store alone
ClearLayoutCachesOnly(c) ==
    [c EXCEPT !.kamada_kawai = NoEntry, !.spring = NoEntry]

\* lines 113-115
ClearCaches(c) == EmptyCache

\* lines 75-78: a partition of the nodes, communities numbered from 0
CommunityValues(g) ==
    {m \in CommunityOutcomes(g.nodes) \ {EmptyMap} :
        \A n \in g.nodes :
            \/ \A o \in g.nodes : m[o] = m[n] => o = n
            \/ \E o \in Successors(g, n) \cup Predecessors(g, n) : o # n /\ m[o] = m[n]}

\* lines 82 and 86: the layouts are functions of the graph alone
LayoutPositions(g, algorithm) == [n \in g.nodes |-> <<algorithm, n>>]

NoAppNet == [rendered |-> FALSE, nodes |-> EmptyMap, edges |-> {},
             communities |-> NoEntry, positions |-> NoEntry, from_cache |-> FALSE]

AppIdle ==
    /\ app_pc = "script"
    /\ widgets = [selected_file |-> "chain.json", layout_option |-> DefaultLayout,
                  hide_sources |-> FALSE]
    /\ session = [has_graph |-> FALSE, current_file |-> None, selected_node |-> None,
                  replaced |-> FALSE]
    /\ cache = EmptyCache
    /\ app_net = NoAppNet

\* lines 105-109: another graph file is selected
SelectFile(f) ==
    /\ app_pc = "wait"
    /\ f \in DataFiles
    /\ f # widgets.selected_file
    /\ widgets' = [widgets EXCEPT !.selected_file = f]
    /\ app_pc' = "script"
    /\ UNCHANGED <<full_graph, session, cache, app_net, ViewVars>>

\* lines 128-155: layout, toggle and node selection
SetWidgets(lay, hide, node) ==
    /\ app_pc = "wait"
    /\ lay \in AppLayouts
    /\ node \in (full_graph.nodes \cap SelectableNodes) \cup {None}
    /\ <<lay, hide, node>> #
          <<widgets.layout_option, widgets.hide_sources, session.selected_node>>
    /\ widgets' = [widgets EXCEPT !.layout_option = lay, !.hide_sources = hide]
    /\ session' = [session EXCEPT !.selected_node = node]
    /\ app_pc' = "script"
    /\ UNCHANGED <<full_graph, cache, app_net, ViewVars>>

\* lines 112-121: the session graph is loaded or replaced, then st.rerun()
LoadGraph ==
    /\ app_pc = "script"
    /\ ~session.has_graph \/ session.current_file # widgets.selected_file
    /\ cache' = ClearCaches(cache)
    /\ full_graph' = LoadGraphFile(widgets.selected_file)
    /\ session' = [has_graph |-> TRUE, current_file |-> widgets.selected_file,
                   selected_node |-> None, replaced |-> session.has_graph]
    /\ app_pc' = "script"
    /\ UNCHANGED <<widgets, app_net, ViewVars>>

\* lines 173-176
HighlightedPredecessors(g, selected, hide) ==
    IF selected = None THEN {}
    ELSE IF hide THEN {p \in Predecessors(g, selected) : InDegree(g, p) > 0}
    ELSE Predecessors(g, selected)

HighlightedSuccessors(g, selected) ==
    IF selected = None THEN {} ELSE Successors(g, selected)

\* lines 178-194
InteractiveNode(g, node, selected, hide, node_to_community, pos) ==
    LET xy == IF node \in DOMAIN pos THEN <<pos[node], 1000>> ELSE <<>>
        group == IF node_to_community # EmptyMap /\ node \in DOMAIN node_to_community
                 THEN node_to_community[node] ELSE NoGroup
    IN  IF node = selected
        THEN [xy |-> xy, color |-> FocusColor, size |-> 25, group |-> NoGroup]
        ELSE IF node \in HighlightedPredecessors(g, selected, hide)
        THEN [xy |-> xy, color |-> BackwardColor, size |-> 20, group |-> NoGroup]
        ELSE IF node \in HighlightedSuccessors(g, selected)
        THEN [xy |-> xy, color |-> ForwardColor, size |-> 20, group |-> NoGroup]
        ELSE [xy |-> xy, size |-> 15, group |-> group,
              color |-> IF group = NoGroup \/ group = 0 THEN DefaultColor ELSE None]

\* lines 196-203
InteractiveEdge(g, e, selected, hide) ==
    LET plain == [from |-> e[1], to |-> e[2], width |-> 1, color |-> "#888888",
                  weight |-> e[3]]
    IN  IF selected = None THEN plain
        ELSE IF e[1] = selected /\ e[2] \in HighlightedSuccessors(g, selected)
        THEN [plain EXCEPT !.color = ForwardColor, !.width = 3]
        ELSE IF e[2] = selected /\ e[1] \in HighlightedPredecessors(g, selected, hide)
        THEN [plain EXCEPT !.color = BackwardColor, !.width = 3]
        ELSE plain

\* lines 158-211: create_interactive_graph on the session graph; communities
\* is what the community detection yields if it has to run
Render(communities) ==
    /\ app_pc = "script"
    /\ session.has_graph /\ session.current_file = widgets.selected_file
    /\ communities \in CommunityValues(full_graph)
    /\ LET lay == widgets.layout_option
           selected == session.selected_node
           hide == widgets.hide_sources
           comm == IF lay = CommunityLayout
                   THEN CachedCall(cache.communities, full_graph, communities)
                   ELSE NoEntry
           kk == IF lay = "Kamada-Kawai"
                 THEN CachedCall(cache.kamada_kawai, full_graph,
                                 LayoutPositions(full_graph, "kamada_kawai"))
                 ELSE NoEntry
           sp == IF lay = "Fruchterman-Reingold"
                 THEN CachedCall(cache.spring, full_graph,
                                 LayoutPositions(full_graph, "spring"))
                 ELSE NoEntry
           pos == IF kk.present THEN kk ELSE sp
       IN  /\ lay # CommunityLayout => communities = CHOOSE c \in CommunityValues(full_graph) : TRUE
           /\ cache.communities.present =>
                 communities = CHOOSE c \in CommunityValues(full_graph) : TRUE
           /\ cache' = [communities |-> IF comm.present THEN comm ELSE cache.communities,
                        kamada_kawai |-> IF kk.present THEN kk ELSE cache.kamada_kawai,
                        spring |-> IF sp.present THEN sp ELSE cache.spring]
           /\ app_net' =
                 [rendered |-> TRUE,
                  nodes |-> [n \in full_graph.nodes |->
                               InteractiveNode(full_graph, n, selected, hide,
                                               comm.value, pos.value)],
                  edges |-> {InteractiveEdge(full_graph, e, selected, hide) :
                               e \in full_graph.edges},
                  communities |-> comm,
                  positions |-> pos,
                  from_cache |-> \/ lay = CommunityLayout /\ cache.communities.present
                                 \/ lay = "Kamada-Kawai" /\ cache.kamada_kawai.present
                                 \/ lay = "Fruchterman-Reingold" /\ cache.spring.present]
    /\ app_pc' = "wait"
    /\ UNCHANGED <<full_graph, widgets, session, ViewVars>>

----------------------------------------------------------------------------

\* the locals of create_ego_graph_view before its first call
ViewIdle ==
    /\ pc = "idle"
    /\ center_node = EmptyNode
    /\ out_radius_hops = 0
    /\ in_radius_hops = 0
    /\ hide_source_nodes = FALSE
    /\ simplify_chains = FALSE
    /\ layout = ""
    /\ out_nodes = {}
    /\ in_nodes = {}
    /\ combined_g = EmptyGraph
    /\ scan = {}
    /\ simplified_in_pass = FALSE
    /\ community_map = EmptyMap
    /\ net = EmptyNet
    /\ outcome = "none"
    /\ extracted = EmptyGraph
    /\ pre_simplify = EmptyGraph
    /\ prev_view = NoPrev

Init ==
    /\ full_graph \in {load_graph(links) : links \in SUBSET EdgePool}
    /\ ViewIdle
    /\ AppIdle

\* graphs with edges from a node to itself
InitLoops ==
    /\ full_graph \in {load_graph(links) : links \in SUBSET LoopPool}
    /\ ViewIdle
    /\ AppIdle

\* app.py before the first run of the page: no graph in the session
InitApp ==
    /\ full_graph = EmptyGraph
    /\ ViewIdle
    /\ AppIdle

Next ==
    \/ \E center \in Centers, out_r \in Radii, in_r \in Radii,
          hide \in BOOLEAN, simp \in BOOLEAN :
          CreateEgoGraphView(center, out_r, in_r, hide, simp)
    \/ \E n \in Nodes : CollapseNode(n)
    \/ \E n \in Nodes : SkipNode(n)
    \/ EndPass
    \/ \E lay \in Layouts :
          \E cmap \in CommunityOutcomes(combined_g.nodes) : Annotate(lay, cmap)
    \/ ToggleHideSources

Spec == Init /\ [][Next]_vars

SpecLoops == InitLoops /\ [][Next]_vars

NextApp ==
    \/ \E f \in DataFiles : SelectFile(f)
    \/ \E lay \in AppLayouts, hide \in BOOLEAN, node \in SelectableNodes \cup {None} :
          SetWidgets(lay, hide, node)
    \/ LoadGraph
    \/ \E communities \in CommunityValues(full_graph) : Render(communities)

SpecApp == InitApp /\ [][NextApp]_vars

----------------------------------------------------------------------------
(* Vocabulary of the properties, defined on paths, apart from the          *)
(* operators of the model                                                  *)

FullPairs == EdgePairs(full_graph)
ViewNodes == DOMAIN net.nodes
ViewPairs == {<<e.from, e.to>> : e \in net.edges}
CenterKnown == center_node # EmptyNode /\ center_node \in full_graph.nodes

\* there is a directed path of at most k edges from u to v
RECURSIVE HopsWithin(_, _, _, _)
HopsWithin(P, u, v, k) ==
    \/ u = v
    \/ /\ k > 0
       /\ \E w \in Nodes : <<u, w>> \in P /\ HopsWithin(P, w, v, k - 1)

\* there is a directed path of at least one edge from u to v
RECURSIVE Descendants(_, _)
Descendants(P, S) ==
    LET next == S \cup {e[2] : e \in {x \in P : x[1] \in S}}
    IN  IF next = S THEN S ELSE Descendants(P, next)
Reachable(P, u, v) == v \in Descendants(P, {e[2] : e \in {x \in P : x[1] = u}})

Unreachable == Cardinality(Nodes) + 1
\* the number of edges of a shortest directed path from u to v
Dist(P, u, v) ==
    IF HopsWithin(P, u, v, Cardinality(Nodes))
    THEN CHOOSE k \in 0..Cardinality(Nodes) :
            /\ HopsWithin(P, u, v, k)
            /\ \A j \in 0..(k - 1) : ~HopsWithin(P, u, v, j)
    ELSE Unreachable

\* nodes without incoming edges in the full graph
FullSources == {n \in full_graph.nodes : \A e \in FullPairs : e[2] # n}

----------------------------------------------------------------------------
(* C1 *)

\* C1: with hide_sources and simplify_chains off and radii >= 0, every node
\* of the view is the focus, or within out_radius hops after the focus, or
\* within in_radius hops before it.
C1_NodesWithinRadius ==
    ( /\ pc = "done" /\ CenterKnown
      /\ out_radius_hops >= 0 /\ in_radius_hops >= 0
      /\ ~hide_source_nodes /\ ~simplify_chains )
    => \A n \in ViewNodes :
          \/ n = center_node
          \/ HopsWithin(FullPairs, center_node, n, out_radius_hops)
          \/ HopsWithin(FullPairs, n, center_node, in_radius_hops)

\* a view that holds a node exactly two hops after the focus and a node
\* exactly two hops before it
C1_Witness ==
    /\ pc = "done" /\ CenterKnown
    /\ ~hide_source_nodes /\ ~simplify_chains
    /\ out_radius_hops = 2 /\ in_radius_hops = 2
    /\ \E n \in ViewNodes : Dist(FullPairs, center_node, n) = 2
    /\ \E n \in ViewNodes : Dist(FullPairs, n, center_node) = 2

----------------------------------------------------------------------------
(* C2, C3 *)

SimplifiedPairs == EdgePairs(combined_g)
PrePairs == EdgePairs(pre_simplify)
SimplifyDone == simplify_chains /\ pc \in {"annotate", "done"} /\ CenterKnown

\* C2: after chain simplification, for any two nodes present both before and
\* after it, one is reachable from the other in the simplified subgraph
\* exactly when it was in the subgraph before simplification.
C2_ReachabilityPreserved ==
    SimplifyDone =>
        \A u \in combined_g.nodes \cap pre_simplify.nodes :
            \A v \in combined_g.nodes \cap pre_simplify.nodes :
                Reachable(SimplifiedPairs, u, v) <=> Reachable(PrePairs, u, v)

\* simplification removed a node and two survivors are joined by the edge
\* that replaced it
C2_Witness ==
    /\ SimplifyDone
    /\ combined_g.nodes # pre_simplify.nodes
    /\ \E e \in SimplifiedPairs \ PrePairs :
          e[1] # e[2] /\ Reachable(PrePairs, e[1], e[2])

\* a non-focus node with one predecessor and one successor that are the same
PassThroughOnTwoCycle(g, n) ==
    /\ n # center_node
    /\ Cardinality({e \in g.edges : e[2] = n}) = 1
    /\ Cardinality({e \in g.edges : e[1] = n}) = 1
    /\ {e[1] : e \in {x \in g.edges : x[2] = n}}
         = {e[2] : e \in {x \in g.edges : x[1] = n}}

\* C3: while chains are simplified the focus stays in the subgraph, no step
\* adds an edge from a node to itself, and a visited non-focus node with
\* in-degree 1 and out-degree 1 whose predecessor is its successor is left
\* in place.
C3_FocusKeptNoSelfLoop ==
    [][ (pc = "scan" \/ pc' = "scan") =>
          /\ center_node' \in combined_g'.nodes
          /\ pc = "scan" =>
               /\ \A e \in EdgePairs(combined_g') \ SimplifiedPairs : e[1] # e[2]
               /\ \A n \in scan \ scan' :
                     PassThroughOnTwoCycle(combined_g, n) => combined_g' = combined_g
      ]_vars

\* simplification ended after a collapse and a node on a two-cycle with its
\* only neighbour is still there
C3_Witness ==
    /\ SimplifyDone
    /\ combined_g.nodes # pre_simplify.nodes
    /\ \E n \in combined_g.nodes : PassThroughOnTwoCycle(combined_g, n)

----------------------------------------------------------------------------
(* C4 *)

\* C4: the node set with hide_sources on is the node set with hide_sources
\* off minus the non-focus nodes without incoming edges in the full graph,
\* for every simplify_chains setting, checked between a render and the
\* render that follows the toggle.
C4_HideSourcesRemovesExactlySources ==
    ( /\ pc = "done" /\ prev_view.valid /\ CenterKnown
      /\ out_radius_hops >= 0 /\ in_radius_hops >= 0 ) =>
        LET hidden == FullSources \ {center_node}
        IN  IF hide_source_nodes
            THEN ViewNodes = prev_view.nodes \ hidden
            ELSE prev_view.nodes = ViewNodes \ hidden

----------------------------------------------------------------------------
(* C5 *)

ChainGraph ==
    load_graph({<<"A", "B">>, <<"B", "C">>, <<"C", "D">>, <<"D", "E">>})

ChainScenario ==
    /\ pc = "done"
    /\ full_graph = ChainGraph
    /\ center_node = "C"
    /\ out_radius_hops = 2
    /\ in_radius_hops = 0
    /\ simplify_chains

\* C5 as stated: on A->B->C->D->E with focus C, out_radius 2, in_radius 0
\* and simplify_chains, the view is {C, D, E} with C->D and D->E.
C5_ChainKeepsD ==
    ChainScenario =>
        /\ ViewNodes = {"C", "D", "E"}
        /\ ViewPairs = {<<"C", "D">>, <<"D", "E">>}

\* C5 amended: in that scenario D is collapsed, the view is {C, E} with the
\* single edge C->E.
C5_ChainCollapsesD ==
    ChainScenario =>
        /\ ViewNodes = {"C", "E"}
        /\ ViewPairs = {<<"C", "E">>}

C5_Witness == ChainScenario /\ "D" \in pre_simplify.nodes /\ "D" \notin ViewNodes

----------------------------------------------------------------------------
(* C6 *)

ExtractionDone == pc # "idle" /\ CenterKnown

OnShortestForwardPath(e) ==
    /\ Dist(FullPairs, center_node, e[2]) <= out_radius_hops
    /\ Dist(FullPairs, center_node, e[1]) + 1 = Dist(FullPairs, center_node, e[2])

OnShortestBackwardPath(e) ==
    /\ Dist(FullPairs, e[1], center_node) <= in_radius_hops
    /\ Dist(FullPairs, e[2], center_node) + 1 = Dist(FullPairs, e[1], center_node)

\* C6 as stated: the edges of the extracted subgraph are exactly the edges
\* of the full graph between extracted nodes that lie on a shortest path
\* from the focus to a forward node or from a backward node to the focus.
C6_EdgesOnShortestPaths ==
    (ExtractionDone /\ out_radius_hops >= 0 /\ in_radius_hops >= 0) =>
        EdgePairs(extracted) =
            {e \in FullPairs :
                /\ e[1] \in extracted.nodes /\ e[2] \in extracted.nodes
                /\ OnShortestForwardPath(e) \/ OnShortestBackwardPath(e)}

BothAfterFocus(e) ==
    /\ out_radius_hops > 0
    /\ HopsWithin(FullPairs, center_node, e[1], out_radius_hops)
    /\ HopsWithin(FullPairs, center_node, e[2], out_radius_hops)

BothBeforeFocus(e) ==
    /\ in_radius_hops > 0
    /\ HopsWithin(FullPairs, e[1], center_node, in_radius_hops)
    /\ HopsWithin(FullPairs, e[2], center_node, in_radius_hops)

\* C6 amended: the edges of the extracted subgraph are exactly the edges of
\* the full graph, with their weights, whose two endpoints are both within
\* out_radius hops after the focus (out_radius > 0) or both within in_radius
\* hops before it (in_radius > 0), on a shortest path or not.
C6_EdgesInducedPerDirection ==
    ExtractionDone =>
        extracted.edges =
            {e \in full_graph.edges : BothAfterFocus(e) \/ BothBeforeFocus(e)}

\* an extracted edge that is on no shortest path from or to the focus, and
\* an edge between a forward and a backward node that is left out
C6_Witness ==
    /\ ExtractionDone /\ out_radius_hops > 0 /\ in_radius_hops > 0
    /\ \E e \in EdgePairs(extracted) :
          ~OnShortestForwardPath(e) /\ ~OnShortestBackwardPath(e)
    /\ \E e \in FullPairs \ EdgePairs(extracted) :
          e[1] \in extracted.nodes /\ e[2] \in extracted.nodes

----------------------------------------------------------------------------
(* C7 *)

RoleColors == {FocusColor, BothColor, BackwardColor, ForwardColor}

\* C7 as stated: in every layout mode the focus has the focus colour, a
\* non-focus node of both sets the 'both' colour, a forward-only node the
\* forward colour, a backward-only node the backward colour; only a node
\* without a role has a community or default colour.
C7_ColouredByRole ==
    (pc = "done" /\ CenterKnown) =>
        \A n \in ViewNodes :
            IF n = center_node THEN net.nodes[n] = FocusColor
            ELSE IF n \in out_nodes /\ n \in in_nodes THEN net.nodes[n] = BothColor
            ELSE IF n \in out_nodes THEN net.nodes[n] = ForwardColor
            ELSE IF n \in in_nodes THEN net.nodes[n] = BackwardColor
            ELSE net.nodes[n] \notin RoleColors

\* C7 amended: the focus always has the focus colour; when a community
\* mapping was computed every other node has the colour of its community,
\* whatever its role; otherwise every other node is coloured by its role.
C7_ColouredByCommunityThenRole ==
    (pc = "done" /\ CenterKnown) =>
        \A n \in ViewNodes :
            IF n = center_node THEN net.nodes[n] = FocusColor
            ELSE IF community_map # EmptyMap
            THEN LET k == Cardinality({community_map[m] : m \in ViewNodes})
                 IN  net.nodes[n] = <<"hsl", (community_map[n] * 360) \div k>>
            ELSE IF n \in out_nodes /\ n \in in_nodes THEN net.nodes[n] = BothColor
            ELSE IF n \in in_nodes THEN net.nodes[n] = BackwardColor
            ELSE IF n \in out_nodes THEN net.nodes[n] = ForwardColor
            ELSE net.nodes[n] = DefaultColor

\* community detection found two communities; a forward node and a backward
\* node carry community colours and the focus its own colour
C7_Witness ==
    /\ pc = "done" /\ CenterKnown
    /\ layout = CommunityLayout
    /\ Cardinality({community_map[m] : m \in DOMAIN community_map}) = 2
    /\ net.nodes[center_node] = FocusColor
    /\ \E n \in ViewNodes \cap (out_nodes \ in_nodes) : net.nodes[n] \notin RoleColors
    /\ \E n \in ViewNodes \cap (in_nodes \ out_nodes) : net.nodes[n] \notin RoleColors

----------------------------------------------------------------------------
(* C8 *)

WeightOfEdge(g, u, v) == (CHOOSE e \in g.edges : e[1] = u /\ e[2] = v)[3]

\* C8: the edge that replaces a collapsed node n between p and s carries the
\* weight of p->n or of n->s, and every edge of the returned view has a
\* weight.
C8_WeightCarried ==
    [][ /\ (pc = "scan" /\ combined_g' # combined_g) =>
              \A n \in scan \ scan' :
                  \A p \in {e[1] : e \in {x \in combined_g.edges : x[2] = n}} :
                      \A s \in {e[2] : e \in {x \in combined_g.edges : x[1] = n}} :
                          \E e \in combined_g'.edges :
                              /\ e[1] = p /\ e[2] = s
                              /\ e[3] \in {WeightOfEdge(combined_g, p, n),
                                           WeightOfEdge(combined_g, n, s)}
        /\ pc' = "done" => \A e \in net'.edges : "weight" \in DOMAIN e
      ]_vars

----------------------------------------------------------------------------
(* C9 *)

\* C9: a call with a negative out_radius or in_radius ends with the outcome
\* InvalidParameter and produces no view.
C9_NegativeRadiusRejected ==
    (pc # "idle" /\ CenterKnown /\ (out_radius_hops < 0 \/ in_radius_hops < 0)) =>
        /\ pc = "done"
        /\ outcome = "InvalidParameter"
        /\ ViewNodes = {}

----------------------------------------------------------------------------
(* C10 *)

\* C10: when the focus is empty or no node of the full graph, the call
\* returns at once a view without nodes and without edges, for every radius,
\* hide_sources and simplify_chains, and ends normally.
C10_MissingFocusGivesEmptyView ==
    (pc # "idle" /\ ~CenterKnown) =>
        /\ pc = "done"
        /\ outcome = "view"
        /\ ViewNodes = {}
        /\ net.edges = {}

\* an unknown focus, asked with radius 2 in both directions and both options
\* on, in a graph that has edges
C10_Witness ==
    /\ pc = "done"
    /\ center_node = UnknownNode
    /\ out_radius_hops = 2 /\ in_radius_hops = 2
    /\ hide_source_nodes /\ simplify_chains
    /\ full_graph.edges # {}
    /\ ViewNodes = {}

----------------------------------------------------------------------------
(* C11 *)

\* C11: with out_radius = in_radius = 0 and a focus of the graph, the view
\* holds the focus alone and no edge, not even an edge from the focus to
\* itself, whatever hide_sources and simplify_chains are.
C11_ZeroRadiiGiveFocusAlone ==
    (pc = "done" /\ CenterKnown /\ out_radius_hops = 0 /\ in_radius_hops = 0) =>
        /\ ViewNodes = {center_node}
        /\ net.edges = {}

\* a focus that has a self-loop, a predecessor and a successor in the full
\* graph, rendered with both radii 0 and both options on
C11_Witness ==
    /\ pc = "done" /\ CenterKnown
    /\ out_radius_hops = 0 /\ in_radius_hops = 0
    /\ hide_source_nodes /\ simplify_chains
    /\ <<center_node, center_node>> \in FullPairs
    /\ \E e \in FullPairs : e[1] = center_node /\ e[2] # center_node
    /\ \E e \in FullPairs : e[2] = center_node /\ e[1] # center_node
    /\ ViewNodes = {center_node}

----------------------------------------------------------------------------
(* C12: memoized results belong to the session graph *)

CacheNames == {"communities", "kamada_kawai", "spring"}

\* the page has just been rendered and waits for the next interaction
Rendered == app_pc = "wait" /\ app_net.rendered

\* C12: in app.py every stored cache entry, and the community mapping and
\* layout positions used by the render now on the page, were computed from
\* the graph the session currently holds, whatever files were selected and
\* whatever was rendered before: no entry of a replaced graph survives.
C12_CachedResultsOfCurrentGraph ==
    /\ \A k \in CacheNames : cache[k].present => cache[k].of = full_graph
    /\ Rendered =>
          /\ app_net.communities.present =>
                /\ app_net.communities.of = full_graph
                /\ DOMAIN app_net.communities.value = full_graph.nodes
          /\ app_net.positions.present =>
                /\ app_net.positions.of = full_graph
                /\ DOMAIN app_net.positions.value = full_graph.nodes

\* a render answered from the cache after the session graph was replaced and
\* all three caches were filled again
C12_Witness ==
    /\ Rendered
    /\ session.replaced
    /\ app_net.from_cache
    /\ app_net.communities.present
    /\ \A k \in CacheNames : cache[k].present

----------------------------------------------------------------------------
(* C13: edge styling *)

\* the style an edge of a rendered network shows
EdgeStyle(e) ==
    IF "color" \in DOMAIN e /\ "width" \in DOMAIN e
    THEN IF e.color = ForwardColor /\ e.width = 3 THEN "highlighted-forward"
         ELSE IF e.color = BackwardColor /\ e.width = 3 THEN "highlighted-backward"
         ELSE "default"
    ELSE "default"

\* the style the edge from -> to is to have for a focus and its two sets
ExpectedStyle(from, to, focus, forward_set, backward_set) ==
    IF from = focus /\ to \in forward_set THEN "highlighted-forward"
    ELSE IF to = focus /\ from \in backward_set THEN "highlighted-backward"
    ELSE "default"

\* C13: every edge of the rendered view is highlighted-forward if it leaves
\* the focus for a node of the forward set, highlighted-backward if it enters
\* the focus from a node of the backward set, and default otherwise; on the
\* chain A->B->C->D->E with focus C and both radii 1, B->C is
\* highlighted-backward and C->D highlighted-forward.
C13_EdgesStyledByDirection ==
    (pc = "done" /\ CenterKnown /\ out_radius_hops >= 0 /\ in_radius_hops >= 0) =>
        \A e \in net.edges :
            EdgeStyle(e) = ExpectedStyle(e.from, e.to, center_node, out_nodes, in_nodes)


----------------------------------------------------------------------------
(* C14: the simplification loop terminates at a fixed point *)

NodeCount(g) == Cardinality(g.nodes)

\* A measure of the work the loop of lines 191-214 has left: the nodes of the
\* subgraph, a pass still owed after a collapse, and the nodes the running
\* pass has yet to visit.
LoopMeasure(g, in_loop, collapsed, to_visit) ==
    (NodeCount(g) + (IF collapsed THEN 1 ELSE 0)) * (Cardinality(Nodes) + 2)
        + Cardinality(to_visit) + (IF in_loop THEN 1 ELSE 0)

FixedPoint(g, center) ==
    \A n \in g.nodes :
        ~(/\ n # center
          /\ InDegree(g, n) = 1
          /\ OutDegree(g, n) = 1
          /\ Predecessors(g, n) # Successors(g, n))

\* C14: the simplification loop terminates: every step of it lowers a
\* natural-number measure, each collapse takes exactly one node out of the
\* subgraph, the loop ends only after a pass without a collapse, and the
\* subgraph it leaves has no non-focus node with in-degree 1 and out-degree 1
\* whose predecessor differs from its successor.
C14_SimplifyLoopTerminates ==
    [][ pc = "scan" =>
          /\ LoopMeasure(combined_g', pc' = "scan", simplified_in_pass', scan')
                < LoopMeasure(combined_g, TRUE, simplified_in_pass, scan)
          /\ combined_g' # combined_g =>
                /\ combined_g'.nodes \subseteq combined_g.nodes
                /\ NodeCount(combined_g') = NodeCount(combined_g) - 1
          /\ pc' # "scan" =>
                /\ ~simplified_in_pass
                /\ scan = {}
                /\ combined_g' = combined_g
                /\ FixedPoint(combined_g', center_node) ]_vars

\* the loop has ended after taking at least two nodes out, and a node with
\* one predecessor and one successor was left because they are the same node
C14_Witness ==
    /\ SimplifyDone
    /\ NodeCount(combined_g) + 2 <= NodeCount(pre_simplify)
    /\ FixedPoint(combined_g, center_node)
    /\ \E n \in combined_g.nodes \ {center_node} :
          /\ InDegree(combined_g, n) = 1
          /\ OutDegree(combined_g, n) = 1


----------------------------------------------------------------------------
(* C15: which nodes simplification removes *)

\* C15 as stated: every node whose in-degree or out-degree in the subgraph
\* before simplification differs from 1 is still present after simplification.
C15_NonForwardingNodesKept ==
    (SimplifyDone /\ out_radius_hops >= 0 /\ in_radius_hops >= 0) =>
        \A n \in pre_simplify.nodes :
            (InDegree(pre_simplify, n) # 1 \/ OutDegree(pre_simplify, n) # 1) =>
                n \in combined_g.nodes

\* C15 amended: a node is removed only when, in the subgraph as it is at that
\* moment, it is not the focus and has in-degree 1, out-degree 1 and a
\* predecessor different from its successor; such a node had in-degree and
\* out-degree at least 1 before simplification, so the focus and every node
\* that had no incoming or no outgoing edge before simplification stay.
C15_RemovedNodesForwardWhenRemoved ==
    [][ pc = "scan" =>
          \A n \in combined_g.nodes \ combined_g'.nodes :
              /\ n # center_node
              /\ InDegree(combined_g, n) = 1
              /\ OutDegree(combined_g, n) = 1
              /\ Predecessors(combined_g, n) # Successors(combined_g, n)
              /\ InDegree(pre_simplify, n) >= 1
              /\ OutDegree(pre_simplify, n) >= 1 ]_vars

\* simplification has removed a node that had several incoming or outgoing
\* edges before it began, and kept a non-focus node that had none
C15_Witness ==
    /\ SimplifyDone
    /\ \E n \in pre_simplify.nodes \ combined_g.nodes :
          InDegree(pre_simplify, n) > 1 \/ OutDegree(pre_simplify, n) > 1
    /\ \E m \in combined_g.nodes \ {center_node} :
          InDegree(pre_simplify, m) = 0 \/ OutDegree(pre_simplify, m) = 0


----------------------------------------------------------------------------
(* C16: the view stays connected to the focus *)

\* C16: for every focus of the graph, radii from 0 up and every combination
\* of hide_sources and simplify_chains, the returned view contains the focus,
\* and every other node of the view is joined to the focus by a directed
\* path of view edges, from the focus to the node or from the node to the
\* focus.
C16_ViewConnectedToFocus ==
    (pc = "done" /\ CenterKnown /\ out_radius_hops >= 0 /\ in_radius_hops >= 0) =>
        /\ center_node \in ViewNodes
        /\ \A n \in ViewNodes \ {center_node} :
              \/ Reachable(ViewPairs, center_node, n)
              \/ Reachable(ViewPairs, n, center_node)

\* a view explored in both directions from which a source was hidden and a
\* chain node collapsed, and which still has nodes on both sides of the focus
C16_Witness ==
    /\ pc = "done" /\ CenterKnown
    /\ out_radius_hops >= 1 /\ in_radius_hops >= 1
    /\ hide_source_nodes /\ simplify_chains
    /\ pre_simplify.nodes # extracted.nodes
    /\ combined_g.nodes # pre_simplify.nodes
    /\ \E n \in ViewNodes \ {center_node} : Reachable(ViewPairs, center_node, n)
    /\ \E n \in ViewNodes \ {center_node} : Reachable(ViewPairs, n, center_node)


====
